---- MODULE Spec2Model ----
(***************************************************************************)
(* Welcome Bot app for the Mattermost apps framework.                      *)
(*                                                                         *)
(* The repository holds two revisions of the same program:                 *)
(*   src/unnamed/part_000  the handlers that use the bot's key-value store *)
(*   src/main.go           the earlier skeleton, whose handlers answer     *)
(*                         canned texts and whose HelpCall sends a DM      *)
(* The variable build says which of the two is running.                    *)
(*                                                                         *)
(* The key-value store, the JSON codec and the HTTP layer are libraries;   *)
(* they are modelled by what the handlers rely on at their call sites:     *)
(*   KVSet  answers (isSet, err): (TRUE, nil) after the value was written, *)
(*          an error when the store cannot be reached, (FALSE, nil) when   *)
(*          the store declined the write; only the first changes the store *)
(*   KVGet  answers an error when the key is absent, when the store cannot *)
(*          be reached or when the bytes do not decode into a string       *)
(*   KVDelete removes the key when the store can be reached                *)
(*   a client built from a context without bot credentials reaches nothing *)
(***************************************************************************)
EXTENDS Naturals, Sequences, FiniteSets, Bags, TLC

\* Longest welcome text, in characters.
MaxLen == 1
\* Handlers that may be in flight at once (SpecConc).
MaxCalls == 2

VARIABLES
    build,      \* which revision of the program runs
    kv,         \* the bot's key-value namespace under prefix KVAppPrefix
    last,       \* the call that completed last: request, store outcome, response
    applied,    \* history: the store write that was applied last
    since,      \* history: the writing handlers (set, delete) that ran after the
                \* last successful set
    calls       \* SpecConc: the handlers in flight

vars == <<build, kv, last, applied, since, calls>>

-----------------------------------------------------------------------------
(* Values *)

None == <<>>
Some(x) == <<x>>

\* Characters of a text: a plain one, the double quote and the backslash
\* (the two that JSON escapes).
DQ == "DQ"
BS == "BS"
Chars == {"a", DQ, BS}
Texts == UNION {[1..n -> Chars] : n \in 0..MaxLen}
Messages == {None} \cup {Some(t) : t \in Texts}

ChannelIDs == {"chA", "chB", "dmC"}
DirectChannels == {"dmC"}

KVAppPrefix == "wb"
StoreKeys == {"welcome_message", "welcome_messages"} \cup ChannelIDs

\* A request body: absent, not JSON, or a call request whose context may lack
\* the bot credentials or the acting user and whose values may lack "message".
Bodies ==
    {[kind |-> k, bot |-> FALSE, user |-> FALSE, channel |-> "chA", message |-> None]
        : k \in {"absent", "garbage"}}
    \cup [kind : {"json"}, bot : BOOLEAN, user : BOOLEAN,
          channel : ChannelIDs, message : Messages]

\* The bodies a command is tried with: only the form of set_channel_welcome
\* has a message field, and only /help expands (and reads) the acting user.
BodiesOf(h) ==
    {b \in Bodies :
        \/ b.kind # "json"
        \/ /\ (h # "set" => b.message = None)
           /\ (h # "help" => b.user)}

\* apps.CallRequest{} after json.NewDecoder(req.Body).Decode(&c), whose error
\* is dropped: a body that does not decode leaves the zero value.
Decode(body) ==
    IF body.kind = "json"
    THEN [Context |-> [BotAccessToken |-> body.bot,
                       ActingUser |-> body.user,
                       ChannelID |-> Some(body.channel)],
          Values |-> body.message]
    ELSE [Context |-> [BotAccessToken |-> FALSE,
                       ActingUser |-> FALSE,
                       ChannelID |-> None],
          Values |-> None]

\* appclient.AsBot(c.Context): a client that carries the context's credentials.
AsBot(ctx) == [authorized |-> ctx.BotAccessToken]

-----------------------------------------------------------------------------
(* JSON, as KVSet encodes &welcomeMessages and KVGet decodes into a string *)

RECURSIVE Escape(_)
Escape(t) ==
    IF t = <<>> THEN <<>>
    ELSE (IF Head(t) \in {DQ, BS} THEN <<BS, Head(t)>> ELSE <<Head(t)>>)
         \o Escape(Tail(t))

JSONNull == <<"n", "u", "l", "l">>

\* The value is c.Values["message"]: nil when the field is missing.
JSONMarshal(v) ==
    IF v = None THEN JSONNull ELSE <<DQ>> \o Escape(v[1]) \o <<DQ>>

\* Reads the string literal that starts after the opening quote; what follows
\* the closing quote is left unread by the decoder.
RECURSIVE Unquote(_, _)
Unquote(b, acc) ==
    IF b = <<>> THEN [err |-> TRUE, value |-> <<>>]
    ELSE IF Head(b) = DQ THEN [err |-> FALSE, value |-> acc]
    ELSE IF Head(b) = BS
         THEN IF Len(b) >= 2 /\ b[2] \in {DQ, BS}
              THEN Unquote(Tail(Tail(b)), Append(acc, b[2]))
              ELSE [err |-> TRUE, value |-> <<>>]
    ELSE Unquote(Tail(b), Append(acc, Head(b)))

\* Decoding into a Go string: null leaves the zero value "" and is no error.
JSONUnmarshalString(b) ==
    IF b = JSONNull THEN [err |-> FALSE, value |-> <<>>]
    ELSE IF b # <<>> /\ Head(b) = DQ THEN Unquote(Tail(b), <<>>)
    ELSE [err |-> TRUE, value |-> <<>>]

-----------------------------------------------------------------------------
(* The store client. up is what the store does with this one request. *)

StoreOutcomes == {"ok", "unavailable", "declined"}
Reached(client, up) == client.authorized /\ up # "unavailable"

KVSet(client, up, store, key, value) ==
    IF ~Reached(client, up)
    THEN [store |-> store, isSet |-> FALSE, err |-> TRUE]
    ELSE IF up = "declined"
    THEN [store |-> store, isSet |-> FALSE, err |-> FALSE]
    ELSE [store |-> [store EXCEPT ![key] = Some(JSONMarshal(value))],
          isSet |-> TRUE, err |-> FALSE]

KVGet(client, up, store, key) ==
    IF ~Reached(client, up) \/ store[key] = None
    THEN [err |-> TRUE, value |-> <<>>]
    ELSE JSONUnmarshalString(store[key][1])

KVDelete(client, up, store, key) ==
    IF Reached(client, up) THEN [store EXCEPT ![key] = None] ELSE store

-----------------------------------------------------------------------------
(* Responses *)

\* httputils.WriteJSON(w, apps.NewTextResponse(text)). A text is a sequence:
\* a canned text is one element, a welcome text is its characters.
TextResponse(text) == [Type |-> "ok", Text |-> text]
\* The handler panicked before writing: the server drops the connection.
NoResponse == [Type |-> "none", Text |-> <<>>]

\* One element for each bullet of the usage text: the command it documents.
commandHelp ==
    <<"preview", "list", "set_channel_welcome", "get_channel_welcome",
      "delete_channel_welcome">>

\* The sub-commands the bindings declare under /mybot.
Bindings ==
    {"help", "list", "preview", "set_channel_welcome", "get_channel_welcome",
     "delete_channel_welcome"}

\* (the source quotes welcome_messages in backticks)
NeedSetText == <<"You need to set the welcome_messages with set_welcome_message">>
ShownListText == <<"Shown Welcome Bot List">>
ShownPreviewText == <<"Shown Welcome Bot Preview">>
CouldNotSetText == <<"We could not set your message">>
HasBeenSetText == <<"Your message has been set">>
ShownDeleteText == <<"Shown Welcome Bot Delete channel welcome">>
ShownHelpText == <<"Shown Welcome Bot Help">>
ShownSetText == <<"Shown Welcome Bot Set channel welcome">>
ShownGetText == <<"Shown Welcome Bot Get Channel welcome">>

\* Faulty variants: a handler that spells the key as the guidance text does.
SetKeyPlural == "welcome_messages"
DeleteKeyPlural == "welcome_messages"

\* The key each handler passes to the store client.
ListKey == "welcome_message"
SetKey == "welcome_message"
GetKey == "welcome_message"
DeleteKey == "welcome_message"

\* Faulty variants: a set that checks only err, a get that does not check err.
SetMessageErrOnly(r) == IF r.err THEN CouldNotSetText ELSE HasBeenSetText
GetMessageNoCheck(r) == r.value

\* The text each handler answers with, from what the store client returned.
ListMessage(r) == IF r.err THEN NeedSetText ELSE ShownListText
SetMessage(r) == IF r.err \/ ~r.isSet THEN CouldNotSetText ELSE HasBeenSetText
GetMessage(r) == IF r.err THEN NeedSetText ELSE r.value

-----------------------------------------------------------------------------
(* State *)

NoBody == [kind |-> "absent", bot |-> FALSE, user |-> FALSE, channel |-> "chA",
           message |-> None]
NoResult == [err |-> FALSE, isSet |-> FALSE, value |-> <<>>]
NoWrite == [op |-> "none", msg |-> None]

\* The record of a completed call: ops counts its store operations, dm says
\* whether it posted a direct message, pre is the store it started from and
\* saw the last applied write when it accessed the store.
Completed(b, h, body, up, pre, saw, resp, ops, dm) ==
    [build |-> b, handler |-> h, body |-> body, up |-> up, pre |-> pre,
     saw |-> saw, resp |-> resp, ops |-> ops, dm |-> dm]

Init ==
    /\ build \in {"part_000", "main.go"}
    /\ kv = [k \in StoreKeys |-> None]
    /\ last = Completed(build, "none", NoBody, "ok", kv, NoWrite, NoResponse, 0, FALSE)
    /\ applied = NoWrite
    /\ since = {}
    /\ calls = EmptyBag

-----------------------------------------------------------------------------
(* Handlers of src/unnamed/part_000, each as one step *)

HelpCall ==
    /\ build = "part_000"
    /\ \E body \in BodiesOf("help") :
         last' = Completed(build, "help", body, "ok", kv, applied,
                           TextResponse(commandHelp), 0, FALSE)
    /\ UNCHANGED <<build, kv, applied, since, calls>>

PreviewCall ==
    /\ build = "part_000"
    /\ \E body \in BodiesOf("preview") :
         last' = Completed(build, "preview", body, "ok", kv, applied,
                           TextResponse(ShownPreviewText), 0, FALSE)
    /\ UNCHANGED <<build, kv, applied, since, calls>>

ListCall ==
    /\ build = "part_000"
    /\ \E body \in BodiesOf("list"), up \in {"ok", "unavailable"} :
         LET c == Decode(body)
             client == AsBot(c.Context)
             r == KVGet(client, up, kv, ListKey)
         IN  last' = Completed(build, "list", body, up, kv, applied,
                               TextResponse(ListMessage(r)), 1, FALSE)
    /\ UNCHANGED <<build, kv, applied, since, calls>>

SetChannelWelcomeCall ==
    /\ build = "part_000"
    /\ \E body \in BodiesOf("set"), up \in StoreOutcomes :
         LET c == Decode(body)
             welcomeMessages == c.Values
             client == AsBot(c.Context)
             r == KVSet(client, up, kv, SetKey, welcomeMessages)
             written == r.isSet /\ ~r.err
         IN  /\ kv' = r.store
             /\ last' = Completed(build, "set", body, up, kv, applied,
                                  TextResponse(SetMessage(r)), 1, FALSE)
             /\ applied' = IF written THEN [op |-> "set", msg |-> welcomeMessages]
                           ELSE applied
             /\ since' = IF written THEN {} ELSE since \cup {"set"}
    /\ UNCHANGED <<build, calls>>

GetChannelWelcomeCall ==
    /\ build = "part_000"
    /\ \E body \in BodiesOf("get"), up \in {"ok", "unavailable"} :
         LET c == Decode(body)
             client == AsBot(c.Context)
             r == KVGet(client, up, kv, GetKey)
         IN  last' = Completed(build, "get", body, up, kv, applied,
                               TextResponse(GetMessage(r)), 1, FALSE)
    /\ UNCHANGED <<build, kv, applied, since, calls>>

DeleteChannelWelcomeCall ==
    /\ build = "part_000"
    /\ \E body \in BodiesOf("delete"), up \in {"ok", "unavailable"} :
         LET c == Decode(body)
             client == AsBot(c.Context)
         IN  /\ kv' = KVDelete(client, up, kv, DeleteKey)
             /\ last' = Completed(build, "delete", body, up, kv, applied,
                                  TextResponse(ShownDeleteText), 1, FALSE)
             /\ applied' = IF Reached(client, up)
                           THEN [op |-> "delete", msg |-> None] ELSE applied
             /\ since' = since \cup {"delete"}
    /\ UNCHANGED <<build, calls>>

-----------------------------------------------------------------------------
(* Handlers of src/main.go *)

\* c.Context.ActingUser.Id dereferences the acting user, which the context
\* holds only when the request carries it: without it the handler panics
\* before it writes a response. The DM's own outcome is dropped.
HelpCall_main ==
    /\ build = "main.go"
    /\ \E body \in BodiesOf("help") :
         LET c == Decode(body)
         IN  last' = IF c.Context.ActingUser
                     THEN Completed(build, "help", body, "ok", kv, applied,
                                    TextResponse(ShownHelpText), 0,
                                    AsBot(c.Context).authorized)
                     ELSE Completed(build, "help", body, "ok", kv, applied,
                                    NoResponse, 0, FALSE)
    /\ UNCHANGED <<build, kv, applied, since, calls>>

\* The other handlers of src/main.go read nothing and answer a fixed text.
PreviewCall_main ==
    /\ build = "main.go"
    /\ \E body \in BodiesOf("preview") :
         last' = Completed(build, "preview", body, "ok", kv, applied,
                           TextResponse(ShownPreviewText), 0, FALSE)
    /\ UNCHANGED <<build, kv, applied, since, calls>>

ListCall_main ==
    /\ build = "main.go"
    /\ \E body \in BodiesOf("list") :
         last' = Completed(build, "list", body, "ok", kv, applied,
                           TextResponse(ShownListText), 0, FALSE)
    /\ UNCHANGED <<build, kv, applied, since, calls>>

SetChannelWelcomeCall_main ==
    /\ build = "main.go"
    /\ \E body \in BodiesOf("set") :
         last' = Completed(build, "set", body, "ok", kv, applied,
                           TextResponse(ShownSetText), 0, FALSE)
    /\ UNCHANGED <<build, kv, applied, since, calls>>

GetChannelWelcomeCall_main ==
    /\ build = "main.go"
    /\ \E body \in BodiesOf("get") :
         last' = Completed(build, "get", body, "ok", kv, applied,
                           TextResponse(ShownGetText), 0, FALSE)
    /\ UNCHANGED <<build, kv, applied, since, calls>>

DeleteChannelWelcomeCall_main ==
    /\ build = "main.go"
    /\ \E body \in BodiesOf("delete") :
         last' = Completed(build, "delete", body, "ok", kv, applied,
                           TextResponse(ShownDeleteText), 0, FALSE)
    /\ UNCHANGED <<build, kv, applied, since, calls>>

Next ==
    \/ HelpCall
    \/ PreviewCall
    \/ ListCall
    \/ SetChannelWelcomeCall
    \/ GetChannelWelcomeCall
    \/ DeleteChannelWelcomeCall
    \/ HelpCall_main
    \/ PreviewCall_main
    \/ ListCall_main
    \/ SetChannelWelcomeCall_main
    \/ GetChannelWelcomeCall_main
    \/ DeleteChannelWelcomeCall_main

Spec == Init /\ [][Next]_vars

-----------------------------------------------------------------------------
(* The store-using handlers of src/unnamed/part_000 running concurrently:   *)
(* the HTTP server runs each request in a goroutine of its own, and a       *)
(* handler is three steps: decode the body, call the store, write the       *)
(* response. The store serves one request at a time. calls is the bag of    *)
(* the handlers in flight, each with its own locals.                        *)

StoreHandlers == {"list", "set", "get", "delete"}

\* Requests of one channel, the scope the handlers contend for: no body, or a
\* call request with the bot credentials and, for set, one of three messages.
ConcBodies(h) ==
    {b \in BodiesOf(h) :
        /\ b.kind # "garbage"
        /\ b.channel = "chA"
        /\ b.kind = "json" => b.bot
        /\ b.message \in {None, Some(<<>>), Some(<<"a">>)}}

InitConc == Init /\ build = "part_000"

\* The locals of a handler that has decoded its request; saw is history: the
\* write that was applied last when the handler called the store.
Decoded(h, c) ==
    [pc |-> "store", handler |-> h, c |-> c, r |-> NoResult, saw |-> NoWrite,
     ops |-> 0]

\* What a handler keeps once the store has answered (c is not read again).
Answered(call, r) ==
    [call EXCEPT !.pc = "respond", !.c = Decode(NoBody), !.r = r,
                 !.saw = applied, !.ops = call.ops + 1]

Step(call, next) == (calls (-) SetToBag({call})) (+) SetToBag({next})

BeginCall ==
    /\ BagCardinality(calls) < MaxCalls
    /\ \E h \in StoreHandlers : \E body \in ConcBodies(h) :
         calls' = calls (+) SetToBag({Decoded(h, Decode(body))})
    /\ UNCHANGED <<build, kv, last, applied, since>>

ListStore ==
    \E call \in BagToSet(calls) :
    /\ call.pc = "store" /\ call.handler = "list"
    /\ \E up \in {"ok", "unavailable"} :
         LET r == KVGet(AsBot(call.c.Context), up, kv, ListKey)
         IN  calls' = Step(call, Answered(call,
                           [err |-> r.err, isSet |-> FALSE, value |-> <<>>]))
    /\ UNCHANGED <<build, kv, last, applied, since>>

SetStore ==
    \E call \in BagToSet(calls) :
    /\ call.pc = "store" /\ call.handler = "set"
    /\ \E up \in StoreOutcomes :
         LET welcomeMessages == call.c.Values
             r == KVSet(AsBot(call.c.Context), up, kv, SetKey, welcomeMessages)
             written == r.isSet /\ ~r.err
         IN  /\ kv' = r.store
             /\ calls' = Step(call, Answered(call,
                              [err |-> r.err, isSet |-> r.isSet, value |-> <<>>]))
             /\ applied' = IF written THEN [op |-> "set", msg |-> welcomeMessages]
                           ELSE applied
             /\ since' = IF written THEN {} ELSE since \cup {"set"}
    /\ UNCHANGED <<build, last>>

GetStore ==
    \E call \in BagToSet(calls) :
    /\ call.pc = "store" /\ call.handler = "get"
    /\ \E up \in {"ok", "unavailable"} :
         LET r == KVGet(AsBot(call.c.Context), up, kv, GetKey)
         IN  calls' = Step(call, Answered(call,
                           [err |-> r.err, isSet |-> FALSE, value |-> r.value]))
    /\ UNCHANGED <<build, kv, last, applied, since>>

DeleteStore ==
    \E call \in BagToSet(calls) :
    /\ call.pc = "store" /\ call.handler = "delete"
    /\ \E up \in {"ok", "unavailable"} :
         LET client == AsBot(call.c.Context)
         IN  /\ kv' = KVDelete(client, up, kv, DeleteKey)
             /\ calls' = Step(call, Answered(call, NoResult))
             /\ applied' = IF Reached(client, up)
                           THEN [op |-> "delete", msg |-> None] ELSE applied
             /\ since' = since \cup {"delete"}
    /\ UNCHANGED <<build, last>>

\* The text a handler writes, from its locals.
ResponseText(h, r) ==
    CASE h = "list" -> ListMessage(r)
      [] h = "set" -> SetMessage(r)
      [] h = "get" -> GetMessage(r)
      [] h = "delete" -> ShownDeleteText

\* The handler writes TextResponse(ResponseText(...)) and returns.
Respond ==
    \E call \in BagToSet(calls) :
    /\ call.pc = "respond"
    /\ calls' = calls (-) SetToBag({call})
    /\ UNCHANGED <<build, kv, last, applied, since>>

NextConc ==
    \/ BeginCall
    \/ ListStore
    \/ SetStore
    \/ GetStore
    \/ DeleteStore
    \/ Respond

SpecConc == InitConc /\ [][NextConc]_vars

-----------------------------------------------------------------------------
(* Properties. A scope is the key a handler addresses in the store; the     *)
(* properties of the store-using handlers are those of src/unnamed/part_000. *)

FromPart000(h) == last.build = "part_000" /\ last.handler = h

\* The store served the last call: its client was authorized and the store up.
LastReached == Reached(AsBot(Decode(last.body).Context), last.up)
\* The store applied the write of the last call.
LastWritten == LastReached /\ last.up = "ok"

\* The last call carried a call request with the bot credentials.
LastWellFormed == last.body.kind = "json" /\ last.body.bot

\* The store holds text t under key.
HoldsText(store, key, t) == store[key] = Some(JSONMarshal(Some(t)))

TextOf(msg) == IF msg = None THEN <<>> ELSE msg[1]

\* What get_channel_welcome and list answer in channel ch when the store is up.
WorkingContext(ch) ==
    [BotAccessToken |-> TRUE, ActingUser |-> TRUE, ChannelID |-> Some(ch)]
GetAnswer(ch, store) ==
    TextResponse(GetMessage(KVGet(AsBot(WorkingContext(ch)), "ok", store, GetKey)))
ListAnswer(ch, store) ==
    TextResponse(ListMessage(KVGet(AsBot(WorkingContext(ch)), "ok", store, ListKey)))

\* The last applied write was a successful set of a text, and no set or delete
\* handler has run on the scope since.
SetThenNothing == applied.op = "set" /\ applied.msg # None /\ since = {}

C2_AbsentAnswersGuidance ==
    /\ (FromPart000("get") /\ last.pre[GetKey] = None)
        => last.resp = TextResponse(NeedSetText)
    /\ (FromPart000("list") /\ last.pre[ListKey] = None)
        => /\ last.resp = TextResponse(NeedSetText)
           /\ last.resp.Text # ShownListText
    /\ NeedSetText # <<>>

\* list was served by a store whose value had been deleted.
C2_Witness ==
    /\ FromPart000("list") /\ last.pre[ListKey] = None
    /\ LastReached /\ applied.op = "delete"
    /\ last.resp = TextResponse(NeedSetText)

\* C3 as stated: delete_channel_welcome (of a well-formed request) answers the
\* confirmation whether or not the scope holds a value, a get that follows
\* finds nothing, and a second delete leaves the same state.
C3_DeleteLeavesNothing ==
    (FromPart000("delete") /\ LastWellFormed)
        => /\ last.resp = TextResponse(ShownDeleteText)
           /\ kv[GetKey] = None
           /\ KVDelete(AsBot(WorkingContext("chA")), "ok", kv, DeleteKey) = kv

\* C4 as stated: a set or delete invoked in one channel leaves unchanged what
\* get_channel_welcome and list answer in every other channel.
C4_ChannelsAreIsolated ==
    (last.build = "part_000" /\ last.handler \in {"set", "delete"}
        /\ last.body.kind = "json")
        => \A ch \in ChannelIDs \ {last.body.channel} :
              /\ GetAnswer(ch, kv) = GetAnswer(ch, last.pre)
              /\ ListAnswer(ch, kv) = ListAnswer(ch, last.pre)

\* C5 as stated: set_channel_welcome invoked in a direct channel is rejected
\* before any store access: no write, every stored message unchanged.
C5_DirectChannelRejected ==
    (FromPart000("set") /\ last.body.kind = "json"
        /\ last.body.channel \in DirectChannels)
        => /\ last.ops = 0
           /\ kv = last.pre
           /\ last.resp.Text # HasBeenSetText

\* C6 as stated: set_channel_welcome answers "has been set" exactly when the
\* store holds the submitted text after the call, and "could not set" exactly
\* when the write failed, the stored value then being unchanged.
C6_ResponseMatchesStoreState ==
    (FromPart000("set") /\ LastWellFormed /\ last.body.message # None)
        => /\ last.resp.Text = HasBeenSetText
                <=> HoldsText(kv, SetKey, last.body.message[1])
           /\ last.resp.Text = CouldNotSetText <=> ~LastWritten
           /\ ~LastWritten => kv = last.pre

\* C6: set_channel_welcome answers "has been set" exactly when the store
\* applied the write, after which it holds the submitted text, and "could not
\* set" exactly when the write failed, the stored value (which may already be
\* the submitted text) then being unchanged; a repeated set that is applied
\* leaves the same state and is answered as a success.
C6_ResponseMatchesWrite ==
    (FromPart000("set") /\ last.body.message # None)
        => /\ last.resp.Text = HasBeenSetText <=> LastWritten
           /\ last.resp.Text = CouldNotSetText <=> ~LastWritten
           /\ LastWritten => HoldsText(kv, SetKey, last.body.message[1])
           /\ ~LastWritten => kv = last.pre
           /\ (LastWritten /\ HoldsText(last.pre, SetKey, last.body.message[1]))
                => kv = last.pre

\* A set repeated the stored text, was applied and answered as a success.
C6_Witness ==
    /\ FromPart000("set") /\ last.body.message # None
    /\ LastWritten
    /\ HoldsText(last.pre, SetKey, last.body.message[1])
    /\ last.resp.Text = HasBeenSetText

\* C7 as stated: help answers the usage text that enumerates all six commands,
\* whatever the request and the store, without store access.
C7_HelpListsSixCommands ==
    last.handler = "help"
        => /\ last.resp.Type = "ok"
           /\ {last.resp.Text[i] : i \in 1..Len(last.resp.Text)} = Bindings
           /\ last.ops = 0
           /\ kv = last.pre

\* C8 as stated: for every command and every request body the handler
\* completes with one well-formed text response.
C8_AlwaysOneTextResponse ==
    last.handler # "none" => last.resp.Type = "ok"

\* C9 as stated: help, list, preview and get leave the store unchanged, and a
\* message exists for a scope only if a set for it succeeded and no delete has
\* run since.
C9_OnlySetCreates ==
    /\ (last.build = "part_000"
            /\ last.handler \in {"help", "list", "preview", "get"})
        => kv = last.pre
    /\ \A k \in StoreKeys :
          kv[k] # None => (applied.op = "set" /\ "delete" \notin since)

-----------------------------------------------------------------------------
(* Concurrency *)

\* What the last applied write leaves under the key.
EffectOf(w) == IF w.op = "set" THEN Some(JSONMarshal(w.msg)) ELSE None

\* C10: in every interleaving each handler performs at most one store
\* operation; a get answers the guidance text or the whole text of one set (the
\* one applied last when it read); and once no handler is in flight the store
\* holds the effect of the write that was applied last.
C10_LastWriteWins ==
    /\ \A call \in BagToSet(calls) :
          /\ call.ops <= 1
          /\ (call.pc = "respond" /\ call.handler = "get")
                => \/ ResponseText("get", call.r) = NeedSetText
                   \/ /\ call.saw.op = "set"
                      /\ ResponseText("get", call.r) = TextOf(call.saw.msg)
    /\ calls = EmptyBag
        => \A k \in StoreKeys :
              kv[k] = IF k = GetKey THEN EffectOf(applied) ELSE None

\* A get is about to answer the text of one set while a later set, already
\* applied, is still in flight.
C10_Witness ==
    \E g, w \in BagToSet(calls) :
        /\ g.pc = "respond" /\ g.handler = "get"
        /\ ResponseText("get", g.r) = <<"a">>
        /\ w.pc = "respond" /\ w.handler = "set" /\ ~w.r.err /\ w.r.isSet
        /\ applied = [op |-> "set", msg |-> Some(<<>>)]

====
